---------------------------- MODULE Spec2Model ----------------------------
(***************************************************************************)
(* A model of the playlist composition engine of the PPG scripts           *)
(* (PPG-Daily.py, PPG-Weekly.py, PPG-Genres.py, PPG-LikedArtists.py):      *)
(* the artist-name normalizer, the artist balancer, the liked-artist       *)
(* selector, the quality filters and the batch loop with its rotation log. *)
(*                                                                         *)
(* Python lists are sequences, random.sample / random.choice /             *)
(* random.shuffle are nondeterministic choices over every result they can  *)
(* return, and a share such as MAX_ARTIST_PERCENTAGE is held in tenths     *)
(* (3 stands for 0.3), so that int(n * share) is (n * tenths) \div 10.     *)
(***************************************************************************)
EXTENDS Integers, Sequences, FiniteSets, TLC

VARIABLES
    pc,                     \* position of the harness or of the batch loop
    artist_name,            \* normalize_artist_name: the raw name
    normalized,             \* normalize_artist_name: the value returned
    renormalized,           \* the value returned for the returned value
    playlist_songs,         \* the list handed to a balancer, filter or reorder
    all_available_songs,    \* the universe handed along for backfill
    max_percentage,         \* balance_artist_representation: the share, in tenths
    target_size,            \* balance_artist_representation: the target_size handed in
    max_per_album,          \* limit_songs_per_album: the album cap
    result,                 \* the list a function returned
    artist_tracks,          \* prevent_consecutive_artists: the tracks left per artist
    reordered,              \* prevent_consecutive_artists: the tracks emitted so far
    songs,                  \* prefer_liked_artists: the candidate pool
    liked_artists,          \* prefer_liked_artists: the liked artist keys
    target_count,           \* prefer_liked_artists: the size asked for
    max_liked_percentage,   \* prefer_liked_artists: the liked share, in tenths
    min_variety_percentage, \* prefer_liked_artists: the variety share, in tenths
    script,                 \* the script that runs the batch loop
    log_file,               \* the rotation log on disk
    loaded_log,             \* the rotation log as read at the start of the run
    daily_log,              \* the rotation log in memory
    available_genre_groups, \* the themes a request may pick
    max_log_entries,        \* MAX_LOG_ENTRIES
    min_songs_required,     \* MIN_SONGS_REQUIRED
    i,                      \* the request of the batch, counted from 1
    attempt,                \* fetch attempts made for the request
    selected_group,         \* the theme picked last
    total_songs,            \* size of the pool fetched last
    selected_method,        \* PPG-LikedArtists: the similarity method of the request
    playlist_songs_bound,   \* whether the local playlist_songs has been assigned
    exhausted,              \* requests whose retry loop ran out without a break
    outcome,                \* per request: pending, Skipped, Failed or Done
    written,                \* requests whose playlist was written to the server
    search_raised,          \* the request, running or just ended, with a search that raised in its fetch
    name_parts,             \* the two parts of an artist name joined by a slash
    form_keys,              \* the keys of the four spellings of the joined name
    balance_cap,            \* max_songs_per_artist of the balancer of a request
    min_duration_seconds,   \* apply_quality_filters: the minimum duration
    prevent_consecutive,    \* apply_quality_filters: whether stage 3 runs
    mood_grouping,          \* apply_quality_filters: whether stage 4 runs
    futures,                \* prefer_liked_artists: the state of the future of each batch
    liked_collected,        \* prefer_liked_artists: liked_songs as collected so far
    other_collected,        \* prefer_liked_artists: other_songs as collected so far
    attempts,               \* prevent_consecutive_artists: draws of the inner loop that failed
    picked_artist           \* prevent_consecutive_artists: next_artist

normVars == <<artist_name, normalized, renormalized>>
listVars == <<playlist_songs, all_available_songs, max_percentage, target_size,
              max_per_album>>
preferVars == <<songs, liked_artists, target_count, max_liked_percentage,
                min_variety_percentage>>
reorderVars == <<artist_tracks, reordered>>
batchVars == <<script, log_file, loaded_log, daily_log, available_genre_groups,
               max_log_entries, min_songs_required, i, attempt, selected_group,
               total_songs, selected_method, playlist_songs_bound, exhausted,
               outcome, written, search_raised>>
formVars == <<name_parts, form_keys>>
composeVars == <<balance_cap>>
qualityVars == <<min_duration_seconds, prevent_consecutive, mood_grouping>>
categorizeVars == <<futures, liked_collected, other_collected>>
searchVars == <<attempts, picked_artist>>
vars == <<pc, normVars, listVars, result, preferVars, reorderVars, batchVars,
          formVars, composeVars, qualityVars,
                categorizeVars, searchVars>>

\* what each harness leaves alone
NormFrame == UNCHANGED <<listVars, result, preferVars, reorderVars, batchVars,
                          formVars, composeVars, qualityVars,
                categorizeVars, searchVars>>
ListFrame == UNCHANGED <<normVars, listVars, preferVars, reorderVars, batchVars,
                          formVars, composeVars, qualityVars,
                categorizeVars, searchVars>>
PreferFrame == UNCHANGED <<normVars, listVars, preferVars, reorderVars, batchVars,
                            formVars, composeVars, qualityVars,
                categorizeVars, searchVars>>
ReorderFrame == UNCHANGED <<normVars, listVars, preferVars, batchVars,
                             formVars, composeVars, qualityVars,
                categorizeVars, searchVars>>
FormFrame == UNCHANGED <<normVars, listVars, result, preferVars, reorderVars,
                         batchVars, composeVars, qualityVars,
                categorizeVars, searchVars>>
BatchFrame == UNCHANGED <<normVars, listVars, result, preferVars, reorderVars,
                           formVars, composeVars, qualityVars,
                categorizeVars, searchVars>>

Min(a, b) == IF a <= b THEN a ELSE b

Range(s) == {s[n] : n \in 1..Len(s)}

\* every sequence over S of length at most n
SeqsUpTo(S, n) == UNION {[1..k -> S] : k \in 0..n}

(***************************************************************************)
(* Strings are sequences of characters.  The alphabet holds a letter that  *)
(* has a decomposed form ("A" followed by the combining mark "uml") and a  *)
(* composed form ("Auml"), a plain letter, the slash and two whitespace    *)
(* characters.                                                             *)
(***************************************************************************)
Whitespace == {" ", "TAB"}
Chars == {"A", "b", "uml", "Auml", "/"} \cup Whitespace

\* Python's None
None == <<"<None>">>

\* unicodedata.normalize('NFC', s): canonical composition
NFC(s) ==
    LET F[n \in 0..Len(s)] ==
            IF n = 0 THEN <<>>
            ELSE IF s[n] = "uml" /\ F[n-1] # <<>> /\ F[n-1][Len(F[n-1])] = "A"
                 THEN SubSeq(F[n-1], 1, Len(F[n-1]) - 1) \o <<"Auml">>
                 ELSE Append(F[n-1], s[n])
    IN F[Len(s)]

\* str.strip()
RECURSIVE LStrip(_)
LStrip(s) == IF s # <<>> /\ s[1] \in Whitespace THEN LStrip(Tail(s)) ELSE s

RECURSIVE RStrip(_)
RStrip(s) ==
    IF s # <<>> /\ s[Len(s)] \in Whitespace
    THEN RStrip(SubSeq(s, 1, Len(s) - 1)) ELSE s

Strip(s) == RStrip(LStrip(s))

\* str.replace(old, new): non-overlapping occurrences, scanned left to right
RECURSIVE Replace(_, _, _)
Replace(s, old, new) ==
    IF Len(s) < Len(old) THEN s
    ELSE IF SubSeq(s, 1, Len(old)) = old
         THEN new \o Replace(SubSeq(s, Len(old) + 1, Len(s)), old, new)
         ELSE <<s[1]>> \o Replace(Tail(s), old, new)

\* str.split(): the words between runs of whitespace
RECURSIVE Split(_)
Split(s) ==
    LET t == LStrip(s)
        WordLen[n \in 0..Len(t)] ==
            IF n = Len(t) \/ t[n+1] \in Whitespace THEN n ELSE WordLen[n+1]
    IN IF t = <<>> THEN <<>>
       ELSE <<SubSeq(t, 1, WordLen[0])>> \o Split(SubSeq(t, WordLen[0] + 1, Len(t)))

\* sep.join(words)
RECURSIVE Join(_, _)
Join(words, sep) ==
    IF words = <<>> THEN <<>>
    ELSE IF Len(words) = 1 THEN words[1]
    ELSE words[1] \o sep \o Join(Tail(words), sep)

\* the slash-spacing statement without its last replacement
SlashSpacingShort(s) ==
    Replace(Replace(s, <<" ", "/", " ">>, <<"/">>), <<"/", " ">>, <<"/">>)

\* the slash-spacing statement of normalize_artist_name
SlashSpacing(s) ==
    Replace(Replace(Replace(s, <<" ", "/", " ">>, <<"/">>),
                    <<"/", " ">>, <<"/">>),
            <<" ", "/">>, <<"/">>)

normalize_artist_name(name) ==
    IF name = None \/ name = <<>> THEN None
    ELSE Join(Split(SlashSpacing(Strip(NFC(name)))), <<" ">>)

(***************************************************************************)
(* The normalizer harness: a raw name is normalized, and the result is     *)
(* normalized again.                                                       *)
(***************************************************************************)
MaxNameLen == 4

FormIdle == name_parts = <<>> /\ form_keys = <<>>

ComposeIdle == balance_cap = 0

CategorizeIdle == futures = <<>> /\ liked_collected = <<>> /\ other_collected = <<>>

SearchIdle == attempts = 0 /\ picked_artist = None

QualityIdle ==
    /\ min_duration_seconds = 0
    /\ prevent_consecutive = FALSE
    /\ mood_grouping = FALSE

NormIdle == artist_name = <<>> /\ normalized = None /\ renormalized = None

ListIdle ==
    /\ playlist_songs = <<>>
    /\ all_available_songs = <<>>
    /\ max_percentage = 0
    /\ target_size = 0
    /\ max_per_album = 0

ReorderIdle == artist_tracks = <<>> /\ reordered = <<>>

\* selected_group = None
NoGroup == "<None>"

BatchIdle ==
    /\ script = "<None>"
    /\ log_file = <<>>
    /\ loaded_log = <<>>
    /\ daily_log = <<>>
    /\ available_genre_groups = {}
    /\ max_log_entries = 0
    /\ min_songs_required = 0
    /\ i = 0
    /\ attempt = 0
    /\ selected_group = NoGroup
    /\ total_songs = 0
    /\ selected_method = "<None>"
    /\ playlist_songs_bound = FALSE
    /\ exhausted = {}
    /\ outcome = <<>>
    /\ written = {}
    /\ search_raised = {}

PreferIdle ==
    /\ songs = <<>>
    /\ liked_artists = {}
    /\ target_count = 0
    /\ max_liked_percentage = 0
    /\ min_variety_percentage = 0

NormInit ==
    /\ pc = "raw"
    /\ artist_name \in SeqsUpTo(Chars, MaxNameLen)
    /\ normalized = None
    /\ renormalized = None
    /\ result = <<>>
    /\ ListIdle
    /\ PreferIdle
    /\ ReorderIdle
    /\ BatchIdle
    /\ FormIdle
    /\ ComposeIdle
    /\ QualityIdle
    /\ CategorizeIdle
    /\ SearchIdle

Normalize ==
    /\ pc = "raw"
    /\ normalized' = normalize_artist_name(artist_name)
    /\ pc' = "normalized"
    /\ UNCHANGED <<artist_name, renormalized>>
    /\ NormFrame

Renormalize ==
    /\ pc = "normalized"
    /\ renormalized' = normalize_artist_name(normalized)
    /\ pc' = "renormalized"
    /\ UNCHANGED <<artist_name, normalized>>
    /\ NormFrame

NormNext == Normalize \/ Renormalize

SpecNormalize == NormInit /\ [][NormNext]_vars

\* C10: normalize_artist_name is idempotent: for every non-empty name,
\* normalizing the normalized name returns the normalized name.
C10_Idempotent ==
    (pc = "renormalized" /\ artist_name # <<>>) => renormalized = normalized

(***************************************************************************)
(* Tracks.  A track is its index in Library (the stable id that list       *)
(* membership and equality go by); grandparentTitle is the raw artist      *)
(* name and parentTitle the album name, None where Plex has none; duration *)
(* is <<milliseconds>>, or <<>> where Plex has none; mood is None where    *)
(* Plex has none.  Two artists share the album title X.                    *)
(***************************************************************************)
Library == <<
    [grandparentTitle |-> <<"A">>,        parentTitle |-> <<"X">>,
     duration |-> <<200000>>, mood |-> <<"calm">>],
    [grandparentTitle |-> <<"A", "uml">>, parentTitle |-> <<"X">>,
     duration |-> <<60000>>,  mood |-> <<"loud">>],
    [grandparentTitle |-> <<"b">>,        parentTitle |-> <<"Y">>,
     duration |-> <<90000>>,  mood |-> <<"calm">>],
    [grandparentTitle |-> <<"b">>,        parentTitle |-> <<"Y">>,
     duration |-> <<0>>,      mood |-> None],
    [grandparentTitle |-> <<"A", " ">>,   parentTitle |-> <<"Z">>,
     duration |-> <<>>,       mood |-> <<"loud">>],
    [grandparentTitle |-> None,           parentTitle |-> None,
     duration |-> <<89999>>,  mood |-> None] >>

Tracks == 1..Len(Library)

\* the pool of the worked scenarios, a tenth of their size: six tracks by
\* artist A, four by artist B and three by artist C
ScenarioTrack(artist, album) ==
    [grandparentTitle |-> artist, parentTitle |-> album,
     duration |-> <<200000>>, mood |-> None]

ScenarioPool ==
    [n \in 1..13 |-> IF n <= 6 THEN ScenarioTrack(<<"A">>, <<"X">>)
                     ELSE IF n <= 10 THEN ScenarioTrack(<<"B">>, <<"Y">>)
                     ELSE ScenarioTrack(<<"C">>, <<"Z">>)]

\* every track there is: the library, then the scenario pool
Catalog == Library \o ScenarioPool

\* Python truthiness of a string or None
Truthy(x) == x # None /\ x # <<>>

ArtistKeys ==
    [t \in 1..Len(Catalog) |->
        IF Truthy(Catalog[t].grandparentTitle)
        THEN normalize_artist_name(Catalog[t].grandparentTitle)
        ELSE None]

get_artist_name(track) == ArtistKeys[track]

get_album_name(track) ==
    IF Truthy(Catalog[track].parentTitle) THEN Catalog[track].parentTitle ELSE None

\* x in list
In(x, list) == \E n \in 1..Len(list) : list[n] = x

\* list.remove(x): the first occurrence goes
RECURSIVE Remove(_, _)
Remove(list, x) ==
    IF list = <<>> THEN <<>>
    ELSE IF list[1] = x THEN Tail(list)
    ELSE <<list[1]>> \o Remove(Tail(list), x)

\* for x in xs: list.remove(x)
RECURSIVE RemoveEach(_, _)
RemoveEach(list, xs) ==
    IF xs = <<>> THEN list ELSE RemoveEach(Remove(list, xs[1]), Tail(xs))

\* random.sample(list, k): k distinct positions of list, in any order
Sample(list, k) ==
    {[n \in 1..k |-> list[f[n]]] :
        f \in {g \in [1..k -> 1..Len(list)] :
                 \A m, n \in 1..k : m # n => g[m] # g[n]}}

\* the keys of a dict filled while iterating over list, in insertion order
RECURSIVE KeysInOrder(_)
KeysInOrder(keys) ==
    IF keys = <<>> THEN <<>>
    ELSE LET front == KeysInOrder(SubSeq(keys, 1, Len(keys) - 1))
             last  == keys[Len(keys)]
         IN IF In(last, front) THEN front ELSE Append(front, last)

CountArtist(list, artist) ==
    Cardinality({n \in 1..Len(list) : get_artist_name(list[n]) = artist})

\* analyze_artist_distribution: the artists counted, in dict order
analyze_artist_distribution(list) ==
    KeysInOrder(SelectSeq([n \in 1..Len(list) |-> get_artist_name(list[n])], Truthy))

\* int(total * share)
ShareOf(total, tenths) == (total * tenths) \div 10

(***************************************************************************)
(* balance_artist_representation.  BalanceTrim is the loop over            *)
(* artists_to_reduce, BalanceBackfill the refill from the universe.        *)
(***************************************************************************)
RECURSIVE BalanceTrim(_, _, _)
BalanceTrim(balanced_playlist, artists_to_reduce, max_songs_per_artist) ==
    IF artists_to_reduce = <<>> THEN {balanced_playlist}
    ELSE LET artist == artists_to_reduce[1]
             artist_songs ==
                 SelectSeq(balanced_playlist, LAMBDA song : get_artist_name(song) = artist)
         IN UNION {
              BalanceTrim(
                  RemoveEach(balanced_playlist,
                             SelectSeq(artist_songs, LAMBDA song : ~In(song, songs_to_keep))),
                  Tail(artists_to_reduce), max_songs_per_artist) :
              songs_to_keep \in Sample(artist_songs, max_songs_per_artist)}

\* the backfill without its filter on the artists just trimmed
BalanceBackfillUnfiltered(balanced_playlist, universe, excluded_artists, total) ==
    LET songs_needed == total - Len(balanced_playlist)
        available_songs ==
            SelectSeq(universe, LAMBDA song : ~In(song, balanced_playlist))
    IN IF songs_needed <= 0 THEN {balanced_playlist}
       ELSE IF Len(available_songs) >= songs_needed
            THEN {balanced_playlist \o additional_songs :
                     additional_songs \in Sample(available_songs, songs_needed)}
            ELSE {balanced_playlist \o available_songs}

BalanceBackfill(balanced_playlist, universe, excluded_artists, total) ==
    LET songs_needed == total - Len(balanced_playlist)
        available_songs ==
            SelectSeq(universe, LAMBDA song : ~In(song, balanced_playlist))
        filtered_available ==
            SelectSeq(available_songs,
                      LAMBDA song : ~In(get_artist_name(song), excluded_artists))
    IN IF songs_needed <= 0 THEN {balanced_playlist}
       ELSE IF Len(filtered_available) >= songs_needed
            THEN {balanced_playlist \o additional_songs :
                     additional_songs \in Sample(filtered_available, songs_needed)}
            ELSE {balanced_playlist \o filtered_available}

\* the balancer without its early return for a list with no artist over the cap
BalanceAlwaysBackfill(playlist, universe, tenths, total) ==
    LET max_songs_per_artist == ShareOf(total, tenths)
        artists_to_reduce ==
            SelectSeq(analyze_artist_distribution(playlist),
                      LAMBDA artist : CountArtist(playlist, artist) > max_songs_per_artist)
    IN UNION {BalanceBackfill(trimmed, universe, artists_to_reduce, total) :
                 trimmed \in BalanceTrim(playlist, artists_to_reduce,
                                         max_songs_per_artist)}

\* every list balance_artist_representation can return; total is
\* target_size, or len(playlist_songs) where the caller gives none
balance_artist_representation(playlist, universe, tenths, total) ==
    LET max_songs_per_artist == ShareOf(total, tenths)
        artists_to_reduce ==
            SelectSeq(analyze_artist_distribution(playlist),
                      LAMBDA artist : CountArtist(playlist, artist) > max_songs_per_artist)
    IN IF artists_to_reduce = <<>> THEN {playlist}
       ELSE UNION {BalanceBackfill(trimmed, universe, artists_to_reduce, total) :
                     trimmed \in BalanceTrim(playlist, artists_to_reduce,
                                             max_songs_per_artist)}

(***************************************************************************)
(* The balancer harness.                                                   *)
(***************************************************************************)
MaxListLen == 3
MaxTarget == 4
Shares == {0, 3, 4, 5, 10}

\* the universes tried: the first k tracks of the library
Universes == {[n \in 1..k |-> n] : k \in 0..Len(Library)}

BalanceInit ==
    /\ pc = "call"
    /\ playlist_songs \in SeqsUpTo(Tracks, MaxListLen)
    /\ all_available_songs \in Universes
    /\ max_percentage \in Shares
    /\ target_size \in 0..MaxTarget
    /\ max_per_album = 0
    /\ result = <<>>
    /\ NormIdle
    /\ PreferIdle
    /\ ReorderIdle
    /\ BatchIdle
    /\ FormIdle
    /\ ComposeIdle
    /\ QualityIdle
    /\ CategorizeIdle
    /\ SearchIdle

\* PPG-Daily, PPG-Weekly, PPG-Genres: the cap is a share of len(playlist_songs)
BalanceByLength ==
    /\ pc = "call"
    /\ target_size = Len(playlist_songs)
    /\ result' \in balance_artist_representation(
                       playlist_songs, all_available_songs, max_percentage,
                       Len(playlist_songs))
    /\ pc' = "balanced"
    /\ ListFrame

\* PPG-LikedArtists: the cap is a share of the target_size handed in
BalanceByTarget ==
    /\ pc = "call"
    /\ result' \in balance_artist_representation(
                       playlist_songs, all_available_songs, max_percentage, target_size)
    /\ pc' = "balanced"
    /\ ListFrame

BalanceNext == BalanceByLength \/ BalanceByTarget

SpecBalance == BalanceInit /\ [][BalanceNext]_vars

\* C1: after balance_artist_representation returns, no artist occurs more
\* than floor(N * max_share) times in the output, provided the universe holds
\* at least that many tracks by other artists.
C1_ArtistCap ==
    pc = "balanced" =>
        \A artist \in {get_artist_name(t) : t \in Tracks} \ {None} :
            CountArtist(all_available_songs, artist) + ShareOf(target_size, max_percentage)
                <= Len(all_available_songs)
            => CountArtist(result, artist) <= ShareOf(target_size, max_percentage)

(***************************************************************************)
(* prefer_liked_artists.  The three selection steps are PreferVariety,     *)
(* PreferLiked and PreferRefill; each yields every list the step can leave *)
(* in selected_songs.                                                      *)
(***************************************************************************)
IsLiked(song, liked) ==
    Truthy(get_artist_name(song)) /\ get_artist_name(song) \in liked

LikedSongs(pool, liked) == SelectSeq(pool, LAMBDA song : IsLiked(song, liked))
OtherSongs(pool, liked) == SelectSeq(pool, LAMBDA song : ~IsLiked(song, liked))

\* "Ensure minimum variety first"
PreferVariety(other_songs, min_variety_count) ==
    IF other_songs # <<>> /\ min_variety_count > 0
    THEN Sample(other_songs, Min(Len(other_songs), min_variety_count))
    ELSE {<<>>}

\* the liked step without the cap of max_liked_count
PreferLikedUncapped(selected_songs, liked_songs, target, max_liked_count) ==
    LET remaining_slots == target - Len(selected_songs)
    IN IF liked_songs # <<>> /\ remaining_slots > 0
       THEN {selected_songs \o picked :
                picked \in Sample(liked_songs, Min(Len(liked_songs), remaining_slots))}
       ELSE {selected_songs}

\* "Fill remaining slots with liked artists (up to max percentage)"
PreferLiked(selected_songs, liked_songs, target, max_liked_count) ==
    LET remaining_slots == target - Len(selected_songs)
    IN IF liked_songs # <<>> /\ remaining_slots > 0
       THEN {selected_songs \o picked :
                picked \in Sample(liked_songs,
                                  Min(Min(Len(liked_songs), remaining_slots),
                                      max_liked_count))}
       ELSE {selected_songs}

\* the refill step with the "if other_songs and remaining_slots > 0" block left out
PreferRefillDropped(selected_songs, other_songs, target) == {selected_songs}

\* "Fill any remaining slots with more other songs if needed"
PreferRefill(selected_songs, other_songs, target) ==
    LET remaining_slots == target - Len(selected_songs)
        available_other_songs ==
            SelectSeq(other_songs, LAMBDA song : ~In(song, selected_songs))
    IN IF other_songs # <<>> /\ remaining_slots > 0 /\ available_other_songs # <<>>
       THEN {selected_songs \o picked :
                picked \in Sample(available_other_songs,
                                  Min(Len(available_other_songs),
                                      Min(Len(other_songs), remaining_slots)))}
       ELSE {selected_songs}

\* the selection with the liked step run before the variety step
prefer_liked_first(pool, liked, target, max_liked_tenths, min_variety_tenths) ==
    IF liked = {} THEN Sample(pool, Min(Len(pool), target))
    ELSE UNION {PreferRefill(with_liked, OtherSongs(pool, liked), target) :
                  with_liked \in PreferLiked(<<>>, LikedSongs(pool, liked), target,
                                             ShareOf(target, max_liked_tenths))}

prefer_liked_artists(pool, liked, target, max_liked_tenths, min_variety_tenths) ==
    LET max_liked_count == ShareOf(target, max_liked_tenths)
        min_variety_count == ShareOf(target, min_variety_tenths)
        liked_songs == LikedSongs(pool, liked)
        other_songs == OtherSongs(pool, liked)
    IN IF liked = {} THEN Sample(pool, Min(Len(pool), target))
       ELSE UNION {UNION {PreferRefill(with_liked, other_songs, target) :
                            with_liked \in PreferLiked(variety, liked_songs, target,
                                                       max_liked_count)} :
                     variety \in PreferVariety(other_songs, min_variety_count)}

(***************************************************************************)
(* The selector harness.  The pools tried are in ascending track order:    *)
(* every step samples positions, so the order of the pool does not change  *)
(* the set of lists the function can return.                               *)
(***************************************************************************)
Ascending(list) == \A n \in 1..(Len(list) - 1) : list[n] <= list[n+1]

DuplicateFree(list) == \A m, n \in 1..Len(list) : m # n => list[m] # list[n]

LikedSets == SUBSET {<<"A">>, <<"b">>}

PreferInit ==
    /\ pc = "call"
    /\ songs \in {pool \in SeqsUpTo(Tracks, MaxListLen) : Ascending(pool)}
    /\ liked_artists \in LikedSets
    /\ target_count \in 0..MaxTarget
    /\ max_liked_percentage \in Shares
    /\ min_variety_percentage \in Shares
    /\ result = <<>>
    /\ ListIdle
    /\ NormIdle
    /\ ReorderIdle
    /\ BatchIdle
    /\ FormIdle
    /\ ComposeIdle
    /\ QualityIdle
    /\ CategorizeIdle
    /\ SearchIdle

Prefer ==
    /\ pc = "call"
    /\ result' \in prefer_liked_artists(songs, liked_artists, target_count,
                                        max_liked_percentage, min_variety_percentage)
    /\ pc' = "selected"
    /\ PreferFrame

PreferNext == Prefer

SpecPrefer == PreferInit /\ [][PreferNext]_vars

NotLikedCount(list, liked) ==
    Cardinality({n \in 1..Len(list) : get_artist_name(list[n]) \notin liked})

\* C2: with a non-empty liked set, the output of prefer_liked_artists holds
\* at least min(floor(T * min_variety_share), |other_tracks|) tracks whose
\* artist key is not in the liked set, whatever max_liked_share is.
C2_VarietyFloor ==
    (pc = "selected" /\ liked_artists # {}) =>
        NotLikedCount(result, liked_artists) >=
            Min(ShareOf(target_count, min_variety_percentage),
                Len(OtherSongs(songs, liked_artists)))

\* a selection for which the floor is above zero and the liked share alone
\* would fill the whole target
C2_Witness ==
    /\ pc = "selected"
    /\ liked_artists # {}
    /\ max_liked_percentage = 10
    /\ Len(LikedSongs(songs, liked_artists)) >= target_count
    /\ ShareOf(target_count, min_variety_percentage) > 0
    /\ OtherSongs(songs, liked_artists) # <<>>

\* C3 as claimed: for a duplicate-free pool and a non-empty liked set the
\* output is at most target_size long, and exactly target_size long whenever
\* |liked_tracks| + |other_tracks| >= target_size.
C3_LengthAsClaimed ==
    (pc = "selected" /\ liked_artists # {} /\ DuplicateFree(songs)) =>
        /\ Len(result) <= target_count
        /\ Len(songs) >= target_count => Len(result) = target_count

\* C3 as amended: for a duplicate-free pool and a non-empty liked set the
\* output is at most target_size long, and exactly target_size long whenever
\* |other_tracks| + min(|liked_tracks|, floor(target_size * max_liked_share))
\* >= target_size.
C3_Length ==
    (pc = "selected" /\ liked_artists # {} /\ DuplicateFree(songs)) =>
        /\ Len(result) <= target_count
        /\ (Len(OtherSongs(songs, liked_artists))
              + Min(Len(LikedSongs(songs, liked_artists)),
                    ShareOf(target_count, max_liked_percentage)) >= target_count)
           => Len(result) = target_count

\* a full-length selection that needed the refill from other_tracks because
\* the liked share capped the liked tracks below what the pool offered
C3_Witness ==
    /\ pc = "selected"
    /\ liked_artists # {}
    /\ DuplicateFree(songs)
    /\ target_count > 0
    /\ Len(result) = target_count
    /\ ShareOf(target_count, max_liked_percentage)
         < Len(LikedSongs(songs, liked_artists))
    /\ NotLikedCount(result, liked_artists)
         > ShareOf(target_count, min_variety_percentage)

(***************************************************************************)
(* limit_songs_per_album.  album_tracks groups the tracks that have an     *)
(* album name; the filtered playlist is rebuilt from those groups alone.   *)
(***************************************************************************)
AlbumTracks(list, album) == SelectSeq(list, LAMBDA track : get_album_name(track) = album)

\* the keys of album_tracks, in dict order
AlbumsInOrder(list) ==
    KeysInOrder(SelectSeq([n \in 1..Len(list) |-> get_album_name(list[n])], Truthy))

\* "Remove excess tracks from albums": the loop over album_tracks.items()
RECURSIVE AlbumTrim(_, _, _, _)
AlbumTrim(filtered_playlist, albums, list, max_songs) ==
    IF albums = <<>> THEN {filtered_playlist}
    ELSE LET tracks == AlbumTracks(list, albums[1])
         IN IF Len(tracks) > max_songs
            THEN UNION {AlbumTrim(filtered_playlist \o tracks_to_keep, Tail(albums),
                                  list, max_songs) :
                          tracks_to_keep \in Sample(tracks, max_songs)}
            ELSE AlbumTrim(filtered_playlist \o tracks, Tail(albums), list, max_songs)

\* "Fill back up to target size from available songs"
AlbumBackfill(filtered_playlist, universe, excluded_albums, wanted) ==
    LET songs_needed == wanted - Len(filtered_playlist)
        available_songs ==
            SelectSeq(universe,
                      LAMBDA song : /\ ~In(song, filtered_playlist)
                                    /\ \/ ~In(get_album_name(song), excluded_albums)
                                       \/ get_album_name(song) = None)
        available_any == SelectSeq(universe, LAMBDA song : ~In(song, filtered_playlist))
    IN IF songs_needed <= 0 THEN {filtered_playlist}
       ELSE IF Len(available_songs) >= songs_needed
            THEN {filtered_playlist \o additional :
                     additional \in Sample(available_songs, songs_needed)}
            ELSE IF available_any # <<>>
                 THEN {filtered_playlist \o additional :
                          additional \in Sample(available_any,
                                                Min(songs_needed, Len(available_any)))}
                 ELSE {filtered_playlist}

\* every list limit_songs_per_album can return
limit_songs_per_album(list, universe, max_songs) ==
    LET albums_to_reduce ==
            SelectSeq(AlbumsInOrder(list),
                      LAMBDA album : Len(AlbumTracks(list, album)) > max_songs)
    IN IF max_songs <= 0 \/ albums_to_reduce = <<>> THEN {list}
       ELSE UNION {AlbumBackfill(filtered, universe, albums_to_reduce, Len(list)) :
                     filtered \in AlbumTrim(<<>>, AlbumsInOrder(list), list, max_songs)}

(***************************************************************************)
(* The album cap harness.                                                  *)
(***************************************************************************)
MaxAlbumCap == 2

AlbumInit ==
    /\ pc = "call"
    /\ playlist_songs \in SeqsUpTo(Tracks, MaxListLen)
    /\ all_available_songs \in Universes
    /\ max_per_album \in 0..MaxAlbumCap
    /\ max_percentage = 0
    /\ target_size = 0
    /\ result = <<>>
    /\ NormIdle
    /\ PreferIdle
    /\ ReorderIdle
    /\ BatchIdle
    /\ FormIdle
    /\ ComposeIdle
    /\ QualityIdle
    /\ CategorizeIdle
    /\ SearchIdle

LimitAlbums ==
    /\ pc = "call"
    /\ result' \in limit_songs_per_album(playlist_songs, all_available_songs,
                                         max_per_album)
    /\ pc' = "limited"
    /\ ListFrame

AlbumNext == LimitAlbums

SpecAlbum == AlbumInit /\ [][AlbumNext]_vars

CountAlbum(list, album) ==
    Cardinality({n \in 1..Len(list) : get_album_name(list[n]) = album})

\* the albums of list that hold more than max_songs of its tracks
CappedAlbums(list, max_songs) ==
    {album \in Range(AlbumsInOrder(list)) : CountAlbum(list, album) > max_songs}

\* the tracks the cap takes out of list
AlbumExcess(list, max_songs) ==
    Cardinality({n \in 1..Len(list) :
                    get_album_name(list[n]) \in CappedAlbums(list, max_songs)})
        - max_songs * Cardinality(CappedAlbums(list, max_songs))

\* the albums of universe tracks that no track of list belongs to
FreshAlbums(list, universe) ==
    {get_album_name(universe[n]) : n \in 1..Len(universe)}
        \ ({get_album_name(list[n]) : n \in 1..Len(list)} \cup {None})

\* C5: with max_songs_per_album = 1 and a universe holding a replacement
\* track (a track of an album the playlist does not hold) for each track the
\* cap removes, no album name occurs more than once in the output of
\* limit_songs_per_album.
C5_AlbumCap ==
    (/\ pc = "limited"
     /\ max_per_album = 1
     /\ DuplicateFree(playlist_songs)
     /\ \A n \in 1..Len(playlist_songs) : get_album_name(playlist_songs[n]) # None
     /\ Cardinality(FreshAlbums(playlist_songs, all_available_songs))
          >= AlbumExcess(playlist_songs, 1))
    => \A album \in {get_album_name(t) : t \in Tracks} \ {None} :
           CountAlbum(result, album) <= 1

(***************************************************************************)
(* prevent_consecutive_artists, one step of its outer loop at a time.      *)
(* artist_tracks maps each group key (an artist key, or Unknown for the    *)
(* tracks without one) to the tracks of the group not emitted yet.         *)
(***************************************************************************)
Unknown == <<"Unknown">>

GroupKey(track) ==
    IF Truthy(get_artist_name(track)) THEN get_artist_name(track) ELSE Unknown

\* artist_queue: the keys of artist_tracks
GroupKeys(list) == {GroupKey(list[n]) : n \in 1..Len(list)}

GroupTracks(list, key) == SelectSeq(list, LAMBDA track : GroupKey(track) = key)

\* random.shuffle(list): every order of the list
Shuffles(list) == Sample(list, Len(list))

\* the candidates the inner loop accepts: a group that still has tracks and
\* whose key differs from the artist of the last track emitted
Acceptable(groups, emitted) ==
    {candidate \in DOMAIN groups :
        /\ groups[candidate] # <<>>
        /\ \/ emitted = <<>>
           \/ get_artist_name(emitted[Len(emitted)]) # candidate}

\* next_artist after the inner loop and the fallback: an acceptable candidate
\* that random.choice hit, or, when every attempt drew a candidate that is
\* not acceptable, any group that still has tracks
NextArtists(groups, emitted) ==
    Acceptable(groups, emitted)
        \cup (IF Acceptable(groups, emitted) # DOMAIN groups
              THEN {candidate \in DOMAIN groups : groups[candidate] # <<>>}
              ELSE {})

\* artist_tracks[next_artist].pop() without the removal
ReorderTakeKept(groups, next_artist) == groups

\* artist_tracks after artist_tracks[next_artist].pop()
ReorderTake(groups, next_artist) ==
    [groups EXCEPT ![next_artist] = SubSeq(@, 1, Len(@) - 1)]

\* "Add any remaining tracks at the end": the groups left, in dict order
RECURSIVE Leftover(_, _)
Leftover(groups, keys) ==
    IF keys = <<>> THEN <<>> ELSE groups[keys[1]] \o Leftover(groups, Tail(keys))

ReorderInit ==
    /\ pc = "call"
    /\ playlist_songs \in SeqsUpTo(Tracks, MaxListLen)
    /\ all_available_songs = <<>>
    /\ max_percentage = 0
    /\ target_size = 0
    /\ max_per_album = 0
    /\ result = <<>>
    /\ NormIdle
    /\ PreferIdle
    /\ ReorderIdle
    /\ BatchIdle
    /\ FormIdle
    /\ ComposeIdle
    /\ QualityIdle
    /\ CategorizeIdle
    /\ SearchIdle

\* fewer than two tracks, or one artist only: the input is returned
ReorderUnchanged ==
    /\ pc = "call"
    /\ Len(playlist_songs) < 2 \/ Cardinality(GroupKeys(playlist_songs)) <= 1
    /\ result' = playlist_songs
    /\ pc' = "returned"
    /\ UNCHANGED reorderVars
    /\ ReorderFrame

\* the grouping and the shuffle of each group
ReorderShuffle ==
    /\ pc = "call"
    /\ Len(playlist_songs) >= 2
    /\ Cardinality(GroupKeys(playlist_songs)) > 1
    /\ artist_tracks' \in
           {groups \in [GroupKeys(playlist_songs) ->
                            UNION {Shuffles(GroupTracks(playlist_songs, key)) :
                                      key \in GroupKeys(playlist_songs)}] :
               \A key \in GroupKeys(playlist_songs) :
                   groups[key] \in Shuffles(GroupTracks(playlist_songs, key))}
    /\ reordered' = <<>>
    /\ pc' = "loop"
    /\ UNCHANGED result
    /\ ReorderFrame

\* one pass of "while len(reordered) < len(playlist_songs)" that emits a track
ReorderPick ==
    /\ pc = "loop"
    /\ Len(reordered) < Len(playlist_songs)
    /\ \E next_artist \in NextArtists(artist_tracks, reordered) :
          /\ reordered' = Append(reordered,
                                 artist_tracks[next_artist][Len(artist_tracks[next_artist])])
          /\ artist_tracks' = ReorderTake(artist_tracks, next_artist)
    /\ UNCHANGED <<pc, result>>
    /\ ReorderFrame

\* the loop is left (its condition fails, or no group has a track); what is
\* left in the groups is appended and the list cut to the input's length
ReorderReturn ==
    /\ pc = "loop"
    /\ \/ Len(reordered) >= Len(playlist_songs)
       \/ NextArtists(artist_tracks, reordered) = {}
    /\ result' = SubSeq(reordered
                          \o Leftover(artist_tracks,
                                      KeysInOrder([n \in 1..Len(playlist_songs) |->
                                                      GroupKey(playlist_songs[n])])),
                        1, Len(playlist_songs))
    /\ pc' = "returned"
    /\ UNCHANGED reorderVars
    /\ ReorderFrame

ReorderNext == ReorderUnchanged \/ ReorderShuffle \/ ReorderPick \/ ReorderReturn

SpecReorder == ReorderInit /\ [][ReorderNext]_vars

CountTrack(list, track) == Cardinality({n \in 1..Len(list) : list[n] = track})

\* C4: the output of prevent_consecutive_artists is a permutation of its
\* input: every track id occurs in the output as often as in the input.
C4_Permutation ==
    pc = "returned" =>
        /\ Len(result) = Len(playlist_songs)
        /\ \A track \in Tracks :
               CountTrack(result, track) = CountTrack(playlist_songs, track)

\* a reordered list with a track without artist and an artist that holds
\* more than half of the input
C4_Witness ==
    /\ pc = "returned"
    /\ result # playlist_songs
    /\ \E n \in 1..Len(playlist_songs) : get_artist_name(playlist_songs[n]) = None
    /\ \E n \in 1..Len(playlist_songs) :
          2 * CountArtist(playlist_songs, get_artist_name(playlist_songs[n]))
              > Len(playlist_songs)

(***************************************************************************)
(* The batch loop of generate_daily_playlists, generate_weekly_playlists   *)
(* and generate_liked_artists_playlists: PLAYLIST_COUNT requests, each     *)
(* inside a try block, and the rotation log of the themes used.  A theme   *)
(* is a genre group (Daily, Weekly) or a liked artist (LikedArtists).      *)
(***************************************************************************)
Scripts == {"Daily", "Weekly", "LikedArtists"}

\* the configured themes: the keys of genre_groups, or liked_artists
genre_groups == {"g1", "g2"}

\* what a line of the log file can hold: a configured theme, or a theme
\* that is not configured any more
LogEntries == genre_groups \cup {"old"}

AVAILABLE_SIMILARITY_METHODS == {"similar_artists", "similar_tracks"}

PlaylistCount == 2
MaxLogLen == 2
MaxLogEntries == 2
MaxAttempts == 10

Requests == 1..PlaylistCount

\* the sizes of a fetched pool, and the values of MIN_SONGS_REQUIRED
PoolSizes == {0, 1, 2}

\* the themes left without a filter on the log
AvailableUnfiltered(groups, log) == groups

\* {group: ... for group in genre_groups if group not in daily_log}
AvailableGroups(groups, log) == {group \in groups : group \notin Range(log)}

\* log[-n:]
Suffix(log, n) ==
    IF n = 0 \/ n >= Len(log) THEN log
    ELSE SubSeq(log, Len(log) - n + 1, Len(log))

\* "if len(log) > MAX_LOG_ENTRIES: log = log[-MAX_LOG_ENTRIES:]"
TrimLog(log, n) == IF Len(log) > n THEN Suffix(log, n) ELSE log

\* the last n entries of a log
LastN(log, n) == SubSeq(log, Len(log) - Min(n, Len(log)) + 1, Len(log))

\* the break of the retry loop
EnoughSongs(name, total, required) ==
    /\ total >= required
    /\ name = "Weekly" => total # 0

\* a request that is never skipped after its retries
NeverSkipped(name, total, required) == FALSE

\* the checks after the retry loop that skip the request
SkipsRequest(name, total, required) ==
    \/ total < required
    \/ name = "Weekly" /\ total = 0

\* the stages of a request after its pool is fetched, in the order of the code
Stages(name) ==
    IF name = "Daily" THEN <<"selecting", "balancing", "writing", "describing">>
    ELSE <<"selecting", "balancing", "filtering", "writing", "describing">>

BatchInit ==
    /\ pc = "start"
    /\ script \in Scripts
    /\ log_file \in SeqsUpTo(LogEntries, MaxLogLen)
    /\ max_log_entries \in 0..MaxLogEntries
    /\ min_songs_required \in PoolSizes
    /\ loaded_log = <<>>
    /\ daily_log = <<>>
    /\ available_genre_groups = {}
    /\ i = 0
    /\ attempt = 0
    /\ selected_group = NoGroup
    /\ total_songs = 0
    /\ selected_method = "<None>"
    /\ playlist_songs_bound = FALSE
    /\ exhausted = {}
    /\ outcome = [r \in Requests |-> "pending"]
    /\ written = {}
    /\ search_raised = {}
    /\ result = <<>>
    /\ NormIdle
    /\ ListIdle
    /\ PreferIdle
    /\ ReorderIdle
    /\ FormIdle
    /\ ComposeIdle
    /\ QualityIdle
    /\ CategorizeIdle
    /\ SearchIdle

\* the log is read (a missing or unreadable file reads as the empty log),
\* the themes in it are filtered out, and a filter that leaves no theme
\* resets the log
Startup ==
    /\ pc = "start"
    /\ loaded_log' = log_file
    /\ IF AvailableGroups(genre_groups, log_file) = {}
       THEN /\ daily_log' = <<>>
            /\ available_genre_groups' = genre_groups
       ELSE /\ daily_log' = log_file
            /\ available_genre_groups' = AvailableGroups(genre_groups, log_file)
    /\ i' = 1
    /\ pc' = "loop"
    /\ UNCHANGED <<script, log_file, max_log_entries, min_songs_required, attempt,
                   selected_group, total_songs, selected_method,
                   playlist_songs_bound, exhausted, outcome, written, search_raised>>
    /\ BatchFrame

\* the top of the body of "for i in range(PLAYLIST_COUNT)"
BeginRequest ==
    /\ pc = "loop"
    /\ i <= PlaylistCount
    /\ attempt' = 0
    /\ total_songs' = 0
    /\ selected_group' = NoGroup
    /\ IF script = "LikedArtists"
       THEN /\ selected_method' \in AVAILABLE_SIMILARITY_METHODS
            /\ playlist_songs_bound' = TRUE
            /\ pc' = "seed"
       ELSE /\ UNCHANGED <<selected_method, playlist_songs_bound>>
            /\ pc' = "retry"
    /\ search_raised' = {}
    /\ UNCHANGED <<script, log_file, loaded_log, daily_log, available_genre_groups,
                   max_log_entries, min_songs_required, i, exhausted, outcome,
                   written>>
    /\ BatchFrame

\* "continue": the rest of the body is left out
NextRequest == i' = i + 1 /\ pc' = "loop"

\* the except clause has run; PPG-Daily has nothing after it in the body
AfterTry ==
    IF script = "Daily" THEN NextRequest ELSE pc' = "timing" /\ UNCHANGED i

\* every script catching the error of a search inside the fetch
SearchErrorAlwaysCaught(name) == TRUE

\* whether the script catches the error of a search inside the fetch:
\* fetch_genre_tracks of PPG-Weekly and the helpers of PPG-LikedArtists
\* have an except clause that returns no track; PPG-Daily calls
\* music_library.search in the retry loop itself
SearchErrorCaught(name) == name # "Daily"

\* one pass of "for attempt in range(10)": a theme is picked and its pool
\* fetched.  A search that raises ends the request of PPG-Daily; PPG-Weekly
\* catches the error (the genre then yields no track) and goes on with the
\* tracks of the other genres; what can still raise there is the release
\* date filter.
Attempt ==
    /\ pc = "retry"
    /\ \E group \in available_genre_groups, raised \in BOOLEAN :
          /\ selected_group' = group
          /\ search_raised' = IF raised THEN search_raised \cup {i} ELSE search_raised
          /\ \/ /\ IF SearchErrorCaught(script) THEN script = "Weekly" ELSE raised
                /\ outcome' = [outcome EXCEPT ![i] = "Failed"]
                /\ AfterTry
                /\ attempt' = 0
                /\ total_songs' = 0
                /\ UNCHANGED exhausted
             \/ /\ raised => SearchErrorCaught(script)
                /\ \E total \in PoolSizes :
                      /\ total_songs' = total
                      /\ attempt' = attempt + 1
                      /\ IF EnoughSongs(script, total, min_songs_required)
                         THEN pc' = "retried" /\ UNCHANGED exhausted
                         ELSE IF attempt + 1 >= MaxAttempts
                              THEN pc' = "retried" /\ exhausted' = exhausted \cup {i}
                              ELSE pc' = "retry" /\ UNCHANGED exhausted
                /\ UNCHANGED <<i, outcome>>
    /\ UNCHANGED <<script, log_file, loaded_log, daily_log, available_genre_groups,
                   max_log_entries, min_songs_required, selected_method,
                   playlist_songs_bound, written>>
    /\ BatchFrame

\* the checks that follow the retry loop.  attempt and total_songs are not
\* read again before they are assigned anew, and are cleared here.
AfterRetries ==
    /\ pc = "retried"
    /\ IF SkipsRequest(script, total_songs, min_songs_required)
       THEN outcome' = [outcome EXCEPT ![i] = "Skipped"] /\ NextRequest
       ELSE pc' = "generate" /\ UNCHANGED <<i, outcome>>
    /\ attempt' = 0
    /\ total_songs' = 0
    /\ UNCHANGED <<script, log_file, loaded_log, daily_log, available_genre_groups,
                   max_log_entries, min_songs_required, selected_group,
                   selected_method, playlist_songs_bound, exhausted, written, search_raised>>
    /\ BatchFrame

\* PPG-LikedArtists: the request picks its seed (an artist of the available
\* ones, or a liked track) and fetches its tracks; no seed track skips the
\* request
Seed ==
    /\ pc = "seed"
    /\ IF selected_method = "similar_artists"
       THEN selected_group' \in available_genre_groups
       ELSE UNCHANGED selected_group
    /\ \E raised \in BOOLEAN :
          search_raised' = IF raised THEN search_raised \cup {i} ELSE search_raised
    /\ \/ /\ outcome' = [outcome EXCEPT ![i] = "Failed"]
          /\ AfterTry
       \/ /\ outcome' = [outcome EXCEPT ![i] = "Skipped"]
          /\ NextRequest
       \/ /\ pc' = "generate"
          /\ UNCHANGED <<i, outcome>>
    /\ UNCHANGED <<script, log_file, loaded_log, daily_log, available_genre_groups,
                   max_log_entries, min_songs_required, attempt, total_songs,
                   selected_method, playlist_songs_bound, exhausted, written>>
    /\ BatchFrame

\* an except clause that appends the theme of the request to the log
LogOnErrorAppended(log, theme) == Append(log, theme)

\* the log after the except clause of a request, which prints the error and
\* does nothing else
LogOnError(log, theme) == log

\* the rest of the try block: the playlist is selected, balanced, filtered,
\* written and described, and the theme is appended to the log, which is
\* trimmed; or one of the stages raises and the except clause runs
Generate ==
    /\ pc = "generate"
    /\ \/ \E stage \in Range(Stages(script)) :
             /\ playlist_songs_bound' = (playlist_songs_bound \/ stage # "selecting")
             /\ written' = IF stage = "describing" THEN written \cup {i} ELSE written
             /\ outcome' = [outcome EXCEPT ![i] = "Failed"]
             /\ daily_log' = LogOnError(daily_log, selected_group)
       \/ /\ playlist_songs_bound' = TRUE
          /\ written' = written \cup {i}
          /\ daily_log' =
                TrimLog(IF script = "LikedArtists" /\ selected_method # "similar_artists"
                        THEN daily_log
                        ELSE Append(daily_log, selected_group),
                        max_log_entries)
          /\ outcome' = [outcome EXCEPT ![i] = "Done"]
    /\ AfterTry
    /\ UNCHANGED <<script, log_file, loaded_log, available_genre_groups,
                   max_log_entries, min_songs_required, attempt, selected_group,
                   total_songs, selected_method, exhausted, search_raised>>
    /\ BatchFrame

\* PPG-Weekly, PPG-LikedArtists: the statements of the body after the try
\* statement read playlist_songs; reading it unassigned raises
\* UnboundLocalError outside every try block
Timing ==
    /\ pc = "timing"
    /\ IF playlist_songs_bound THEN NextRequest ELSE pc' = "crashed" /\ UNCHANGED i
    /\ UNCHANGED <<script, log_file, loaded_log, daily_log, available_genre_groups,
                   max_log_entries, min_songs_required, attempt, selected_group,
                   total_songs, selected_method, playlist_songs_bound, exhausted,
                   outcome, written, search_raised>>
    /\ BatchFrame

\* after the loop the log is written back; a write that fails leaves the
\* old file or a part of the new one
Finish ==
    /\ pc = "loop"
    /\ i > PlaylistCount
    /\ log_file' \in {log_file} \cup {SubSeq(daily_log, 1, n) : n \in 0..Len(daily_log)}
    /\ pc' = "finished"
    /\ UNCHANGED <<script, loaded_log, daily_log, available_genre_groups,
                   max_log_entries, min_songs_required, i, attempt, selected_group,
                   total_songs, selected_method, playlist_songs_bound, exhausted,
                   outcome, written, search_raised>>
    /\ BatchFrame

BatchNext ==
    \/ Startup
    \/ BeginRequest
    \/ Attempt
    \/ AfterRetries
    \/ Seed
    \/ Generate
    \/ Timing
    \/ Finish

SpecBatch == BatchInit /\ [][BatchNext]_vars

\* C6: a request that raised at any stage never ends the batch: the loop is
\* not left by an error, and a run that finishes has attempted every later
\* request.
C6_ErrorIsolation ==
    \A r \in DOMAIN outcome :
        outcome[r] = "Failed" =>
            /\ pc # "crashed"
            /\ pc = "finished" =>
                  \A later \in DOMAIN outcome : later > r => outcome[later] # "pending"

\* C7: a request makes at most 10 fetch attempts, and a request whose
\* attempts all came back short ends Skipped without a playlist written and
\* without an error, and the loop goes on to the next request.
C7_RetryBound ==
    /\ attempt <= MaxAttempts
    /\ \A r \in exhausted :
          \/ i = r /\ pc = "retried" /\ attempt = MaxAttempts
          \/ /\ i > r
             /\ outcome[r] = "Skipped"
             /\ r \notin written

\* an exhausted request was skipped and the request after it was written
C7_Witness ==
    \E r \in exhausted :
        /\ outcome[r] = "Skipped"
        /\ r + 1 \in DOMAIN outcome
        /\ outcome[r + 1] = "Done"
        /\ r + 1 \in written

\* a step of a successful generation that appends its theme to the log
AppendsTheme ==
    /\ pc = "generate"
    /\ outcome'[i] = "Done"
    /\ script = "LikedArtists" => selected_method = "similar_artists"

\* C8: for every MAX_LOG_ENTRIES >= 0, after each append the log holds at
\* most MAX_LOG_ENTRIES entries: the last MAX_LOG_ENTRIES entries of the
\* previous log followed by the new theme.
C8_LogTrimmed ==
    [][AppendsTheme =>
          /\ Len(daily_log') <= max_log_entries
          /\ daily_log' = LastN(Append(daily_log, selected_group), max_log_entries)]_vars

\* every configured theme is in the log that was loaded
AllLogged == genre_groups \subseteq Range(loaded_log)

\* C9: no theme of the log loaded at the start of the run is selected,
\* unless every configured theme is in that log; then the log in memory is
\* emptied as a whole (it holds nothing but the themes appended by this run)
\* and every theme is eligible.
C9_RotationFilter ==
    pc # "start" =>
        /\ selected_group # NoGroup /\ ~AllLogged
              => selected_group \notin Range(loaded_log)
        /\ ~AllLogged => available_genre_groups = genre_groups \ Range(loaded_log)
        /\ AllLogged =>
              /\ available_genre_groups = genre_groups
              /\ Len(daily_log) <= Cardinality({r \in DOMAIN outcome : outcome[r] = "Done"})

\* after a full reset a theme of the loaded log was selected and written
C9_Witness ==
    /\ AllLogged
    /\ selected_group \in Range(loaded_log)
    /\ \E r \in DOMAIN outcome : outcome[r] = "Done"

(***************************************************************************)
(* The four spellings of a name made of two parts and a slash, and the     *)
(* key normalize_artist_name gives each of them.                           *)
(***************************************************************************)
MaxPartLen == 2

\* "A / B", "A/ B", "A /B", "A/B"
Spellings(a, b) ==
    << a \o <<" ", "/", " ">> \o b,
       a \o <<"/", " ">> \o b,
       a \o <<" ", "/">> \o b,
       a \o <<"/">> \o b >>

FormInit ==
    /\ pc = "parts"
    /\ name_parts \in SeqsUpTo(Chars, MaxPartLen) \X SeqsUpTo(Chars, MaxPartLen)
    /\ form_keys = <<>>
    /\ result = <<>>
    /\ NormIdle
    /\ ListIdle
    /\ PreferIdle
    /\ ReorderIdle
    /\ BatchIdle
    /\ ComposeIdle
    /\ QualityIdle
    /\ CategorizeIdle
    /\ SearchIdle

NormalizeSpellings ==
    /\ pc = "parts"
    /\ form_keys' = [n \in 1..4 |->
                        normalize_artist_name(Spellings(name_parts[1], name_parts[2])[n])]
    /\ pc' = "keyed"
    /\ UNCHANGED name_parts
    /\ FormFrame

FormNext == NormalizeSpellings

SpecForms == FormInit /\ [][FormNext]_vars

\* a name part: a name without whitespace at either end
Stripped(s) == s # <<>> /\ Strip(s) = s

\* a name part that is its own key
Normal(s) == s # <<>> /\ normalize_artist_name(s) = s

\* C11: for all name parts A and B (names without whitespace at either
\* end), "A / B", "A/ B", "A /B" and "A/B" normalize to one key, the key of A,
\* a slash and the key of B; for parts that are their own key it is "A/B".
C11_SpellingsAgree ==
    (pc = "keyed" /\ Stripped(name_parts[1]) /\ Stripped(name_parts[2]))
        => /\ \A n \in 1..4 :
                 form_keys[n] = normalize_artist_name(name_parts[1]) \o <<"/">>
                                    \o normalize_artist_name(name_parts[2])
           /\ (Normal(name_parts[1]) /\ Normal(name_parts[2]))
                 => \A n \in 1..4 :
                        form_keys[n] = name_parts[1] \o <<"/">> \o name_parts[2]

\* four spellings that differ as raw names, of parts with a decomposed
\* letter and inner whitespace
C11_Witness ==
    /\ pc = "keyed"
    /\ Stripped(name_parts[1])
    /\ Stripped(name_parts[2])
    /\ \E n \in 1..Len(name_parts[1]) : name_parts[1][n] = "uml"
    /\ Normal(name_parts[2])
    /\ form_keys[1] = form_keys[4]
    /\ form_keys[1] # Spellings(name_parts[1], name_parts[2])[1]

(***************************************************************************)
(* The worked scenario of the artist balancer, as generate_daily_playlists *)
(* runs it without liked artists: a pool of 6 tracks by A and 4 by B (a    *)
(* tenth of 60 and 40), SONGS_PER_PLAYLIST = 5 and MAX_ARTIST_PERCENTAGE =  *)
(* 0.3.  The playlist is sampled from the pool and then balanced.          *)
(***************************************************************************)
ScenarioSongs == [n \in 1..10 |-> Len(Library) + n]

ScenarioTarget == 5

ScenarioInit ==
    /\ pc = "fetched"
    /\ playlist_songs = <<>>
    /\ all_available_songs = ScenarioSongs
    /\ max_percentage = 3
    /\ target_size = ScenarioTarget
    /\ max_per_album = 0
    /\ result = <<>>
    /\ NormIdle
    /\ PreferIdle
    /\ ReorderIdle
    /\ BatchIdle
    /\ FormIdle
    /\ ComposeIdle
    /\ QualityIdle
    /\ CategorizeIdle
    /\ SearchIdle

\* playlist_songs = random.sample(songs, min(len(songs), SONGS_PER_PLAYLIST))
ScenarioSelect ==
    /\ pc = "fetched"
    /\ playlist_songs' \in Sample(all_available_songs,
                                  Min(Len(all_available_songs), target_size))
    /\ pc' = "selected"
    /\ UNCHANGED <<all_available_songs, max_percentage, target_size, max_per_album,
                   result>>
    /\ UNCHANGED <<normVars, preferVars, reorderVars, batchVars, formVars,
                   composeVars, qualityVars,
                categorizeVars, searchVars>>

\* playlist_songs = balance_artist_representation(playlist_songs, songs,
\* MAX_ARTIST_PERCENTAGE)
ScenarioBalance ==
    /\ pc = "selected"
    /\ result' \in balance_artist_representation(
                       playlist_songs, all_available_songs, max_percentage,
                       Len(playlist_songs))
    /\ pc' = "balanced"
    /\ ListFrame

ScenarioNext == ScenarioSelect \/ ScenarioBalance

SpecScenario == ScenarioInit /\ [][ScenarioNext]_vars

ScenarioCap == ShareOf(Len(playlist_songs), max_percentage)

\* C12 as stated: the output holds at most 15 (here 1) tracks by A, and
\* every A track removed is replaced by a track of B.
C12_BackfilledFromB ==
    pc = "balanced" =>
        /\ CountArtist(result, <<"A">>) <= ScenarioCap
        /\ Len(result) = Len(playlist_songs)
        /\ \A n \in 1..Len(result) :
              In(result[n], playlist_songs) \/ get_artist_name(result[n]) = <<"B">>

(***************************************************************************)
(* The composition of the output of prefer_liked_artists.                  *)
(***************************************************************************)
\* the variety tracks taken first
VarietyTaken ==
    Min(Len(OtherSongs(songs, liked_artists)),
        ShareOf(target_count, min_variety_percentage))

\* min(|liked_tracks|, target_size - variety_taken, floor(target_size * max_liked_share))
LikedTaken ==
    Min(Min(Len(LikedSongs(songs, liked_artists)), target_count - VarietyTaken),
        ShareOf(target_count, max_liked_percentage))

LikedCount(list, liked) == Len(list) - NotLikedCount(list, liked)

\* C13: with a non-empty liked set the output of prefer_liked_artists holds
\* min(|liked_tracks|, target_size - variety_taken, floor(target_size *
\* max_liked_share)) liked tracks, and the remaining slots are filled from the
\* other tracks not chosen yet: for a duplicate-free pool no track is chosen
\* twice and the other tracks number min(|other_tracks|, target_size - liked).
C13_Composition ==
    (pc = "selected" /\ liked_artists # {}) =>
        /\ LikedCount(result, liked_artists) = LikedTaken
        /\ \A n \in 1..Len(result) : In(result[n], songs)
        /\ DuplicateFree(songs) =>
              /\ DuplicateFree(result)
              /\ NotLikedCount(result, liked_artists) =
                     Min(Len(OtherSongs(songs, liked_artists)), target_count - LikedTaken)

\* a selection in which the variety step added a track and the liked step
\* was held back by max_liked_share alone
C13_Witness ==
    /\ pc = "selected"
    /\ liked_artists # {}
    /\ DuplicateFree(songs)
    /\ VarietyTaken > 0
    /\ LikedTaken > 0
    /\ LikedTaken < Len(LikedSongs(songs, liked_artists))
    /\ LikedTaken < target_count - VarietyTaken
    /\ LikedCount(result, liked_artists) = LikedTaken

(***************************************************************************)
(* Adjacency in the output of prevent_consecutive_artists.                 *)
(***************************************************************************)
\* no two neighbours of list have the same artist key, None aside
NoAdjacentArtist(list) ==
    \A n \in 1..(Len(list) - 1) :
        \/ get_artist_name(list[n]) = None
        \/ get_artist_name(list[n]) # get_artist_name(list[n + 1])

\* C16: when some order of the input has no two neighbours of the same
\* artist key, every output of prevent_consecutive_artists has none either.
C16_NoAdjacentRepeat ==
    (/\ pc = "returned"
     /\ \E order \in Shuffles(playlist_songs) : NoAdjacentArtist(order))
    => NoAdjacentArtist(result)

(***************************************************************************)
(* The balancer's backfill.                                                *)
(***************************************************************************)
\* max_songs_per_artist of the call that returned
BalanceCap == ShareOf(target_size, max_percentage)

\* the keys of artists_to_reduce
OverCap == {artist \in Range(analyze_artist_distribution(playlist_songs)) :
               CountArtist(playlist_songs, artist) > BalanceCap}

\* filtered_available: what the backfill may draw from
Alternatives ==
    SelectSeq(all_available_songs,
              LAMBDA song : /\ ~In(song, playlist_songs)
                            /\ get_artist_name(song) \notin OverCap)

\* C18: for a duplicate-free input every artist that was over the cap has
\* exactly cap tracks in the output, each of them a track of the input.
C18_TrimmedStayAtCap ==
    (pc = "balanced" /\ DuplicateFree(playlist_songs)) =>
        \A artist \in OverCap :
            /\ CountArtist(result, artist) = BalanceCap
            /\ \A n \in 1..Len(result) :
                  get_artist_name(result[n]) = artist => In(result[n], playlist_songs)

\* an artist was trimmed to a cap above zero, the universe holds a track of
\* that artist outside the input, and the backfill added a track
C18_Witness ==
    /\ pc = "balanced"
    /\ DuplicateFree(playlist_songs)
    /\ BalanceCap > 0
    /\ \E n \in 1..Len(all_available_songs) :
          /\ get_artist_name(all_available_songs[n]) \in OverCap
          /\ ~In(all_available_songs[n], playlist_songs)
    /\ \E n \in 1..Len(result) : ~In(result[n], playlist_songs)

\* C19: with a cap of zero an artist with tracks in the input has none in the
\* output, unless the backfill has no alternative, and then its tracks are kept.
C19_KeptWithoutAlternative ==
    (pc = "balanced" /\ BalanceCap = 0) =>
        \A artist \in OverCap :
            IF Alternatives = <<>>
            THEN CountArtist(result, artist) = CountArtist(playlist_songs, artist)
            ELSE CountArtist(result, artist) = 0

\* the output reaches target_size, or holds every alternative of the universe
Filled ==
    \/ Len(result) = target_size
    \/ \A n \in 1..Len(Alternatives) : In(Alternatives[n], result)

\* C20 as claimed: an input shorter than target_size is filled up to
\* target_size, or with every alternative of the universe, whether or not an
\* artist was over the cap.
C20_FilledAsClaimed ==
    (pc = "balanced" /\ target_size > Len(playlist_songs) /\ Alternatives # <<>>)
        => Filled /\ Len(result) > Len(playlist_songs)

\* C20: an input shorter than target_size is filled up to target_size, or
\* with every alternative of the universe, when some artist was over the
\* cap; when none was, the input is returned as it is.
C20_FilledAfterTrim ==
    (pc = "balanced" /\ target_size > Len(playlist_songs) /\ Alternatives # <<>>)
        => IF OverCap = {} THEN result = playlist_songs ELSE Filled

\* a short input with an artist over the cap, filled past its own length
C20_Witness ==
    /\ pc = "balanced"
    /\ target_size > Len(playlist_songs)
    /\ DuplicateFree(playlist_songs)
    /\ OverCap # {}
    /\ Len(result) > Len(playlist_songs)
    /\ Len(result) = target_size

(***************************************************************************)
(* The quality filters as functions of a list: every list each of them     *)
(* can return.                                                             *)
(***************************************************************************)
\* get_track_duration_seconds returns a number: track.duration is neither
\* None nor 0 ("if duration_ms:")
HasDuration(track) ==
    Catalog[track].duration # <<>> /\ Catalog[track].duration[1] # 0

\* the duration in thousandths of a second, where there is one
DurationMs(track) == Catalog[track].duration[1]

filter_by_minimum_duration(tracks, minimum) ==
    IF minimum <= 0 THEN tracks
    ELSE SelectSeq(tracks,
                   LAMBDA track : \/ ~HasDuration(track)
                                  \/ DurationMs(track) >= minimum * 1000)

get_track_mood(track) ==
    IF Truthy(Catalog[track].mood) THEN Catalog[track].mood ELSE None

\* the shuffled groups prevent_consecutive_artists starts its loop with
ShuffledGroups(list) ==
    {groups \in [GroupKeys(list) ->
                    UNION {Shuffles(GroupTracks(list, key)) : key \in GroupKeys(list)}] :
        \A key \in GroupKeys(list) : groups[key] \in Shuffles(GroupTracks(list, key))}

\* the loop of prevent_consecutive_artists from one state of it to its return
RECURSIVE ReorderRuns(_, _, _)
ReorderRuns(groups, emitted, list) ==
    IF Len(emitted) >= Len(list) \/ NextArtists(groups, emitted) = {}
    THEN {SubSeq(emitted \o Leftover(groups,
                                     KeysInOrder([n \in 1..Len(list) |-> GroupKey(list[n])])),
                 1, Len(list))}
    ELSE UNION {ReorderRuns(ReorderTake(groups, next_artist),
                            Append(emitted, groups[next_artist][Len(groups[next_artist])]),
                            list) :
                  next_artist \in NextArtists(groups, emitted)}

prevent_consecutive_artists(list) ==
    IF Len(list) < 2 \/ Cardinality(GroupKeys(list)) <= 1 THEN {list}
    ELSE UNION {ReorderRuns(groups, <<>>, list) : groups \in ShuffledGroups(list)}

\* grouped.insert(pos, track)
InsertAt(list, pos, track) ==
    SubSeq(list, 1, pos) \o <<track>> \o SubSeq(list, pos + 1, Len(list))

\* the interleaving with every position of the list open to a track
RECURSIVE InterleaveAnywhere(_, _, _)
InterleaveAnywhere(grouped, pending, matching) ==
    IF pending = <<>> THEN {grouped}
    ELSE UNION {InterleaveAnywhere(InsertAt(grouped, pos, pending[1]), Tail(pending),
                                   matching) :
                   pos \in 0..Len(grouped)}

\* "Interleave tracks without mood data randomly": each track goes to a
\* random position behind the first matching tracks
RECURSIVE Interleave(_, _, _)
Interleave(grouped, pending, matching) ==
    IF pending = <<>> THEN {grouped}
    ELSE IF Len(grouped) > matching
         THEN UNION {Interleave(InsertAt(grouped, pos, pending[1]), Tail(pending), matching) :
                        pos \in matching..Len(grouped)}
         ELSE Interleave(Append(grouped, pending[1]), Tail(pending), matching)

group_by_mood(list) ==
    LET tracks_with_mood == SelectSeq(list, LAMBDA track : Truthy(get_track_mood(track)))
        tracks_without_mood == SelectSeq(list, LAMBDA track : ~Truthy(get_track_mood(track)))
    IN IF tracks_with_mood = <<>> THEN Shuffles(list)
       ELSE UNION {
              LET tracks_matching_mood ==
                      SelectSeq(tracks_with_mood,
                                LAMBDA track : get_track_mood(track) = selected_mood)
                  tracks_other_moods ==
                      SelectSeq(tracks_with_mood,
                                LAMBDA track : get_track_mood(track) # selected_mood)
              IN UNION {Interleave(grouped \o others, without, Len(tracks_matching_mood)) :
                          <<grouped, others, without>> \in
                              Shuffles(tracks_matching_mood) \X Shuffles(tracks_other_moods)
                                  \X Shuffles(tracks_without_mood)} :
              selected_mood \in {get_track_mood(track) : track \in Range(tracks_with_mood)}}

(***************************************************************************)
(* One playlist request from the fetch to the write, as the body of the    *)
(* request loop of PPG-Daily, PPG-Genres and PPG-LikedArtists runs it:     *)
(* fetch, select, balance, the four quality filters (not in PPG-Daily),    *)
(* write.  pc names the stage that runs next.  The settings that one stage *)
(* alone reads (the liked artists and their shares, the required share of  *)
(* the pool, MIN_SONG_DURATION_SECONDS, PREVENT_CONSECUTIVE_ARTISTS,       *)
(* MOOD_GROUPING_ENABLED) are drawn where they are read.                   *)
(***************************************************************************)
ComposeScripts == {"Daily", "Genres", "LikedArtists"}

\* SONGS_PER_PLAYLIST, MAX_ARTIST_PERCENTAGE in tenths (a cap on half of the
\* list, and no cap) and MAX_SONGS_PER_ALBUM (0 turns the album stage off)
ComposeTargets == {2, 3}
ComposeShares == {5, 10}
ComposeAlbumCaps == {0, 1, 2}

\* MIN_SONG_DURATION_SECONDS: the filter off, and the default of the filter
MinDurations == {0, 90}

\* the liked artists of the library, and the pairs of
\* MAX_LIKED_ARTISTS_PERCENTAGE and MIN_VARIETY_PERCENTAGE, in tenths
ComposeLiked == {{}, {<<"A">>}}
LikedShares == {<<8, 1>>, <<5, 5>>}

\* the required share of SONGS_PER_PLAYLIST in MIN_SONGS_REQUIRED, in tenths
RequiredShares == {0, 8}

\* what one search returns: tracks of the library, each once
Facets == {facet \in SeqsUpTo(Tracks, MaxListLen) :
              Ascending(facet) /\ DuplicateFree(facet)}

ComposeInit ==
    /\ pc = "Fetching"
    /\ script \in ComposeScripts
    /\ selected_method \in IF script = "LikedArtists" THEN AVAILABLE_SIMILARITY_METHODS
                           ELSE {"<None>"}
    /\ target_size \in ComposeTargets
    /\ max_percentage \in ComposeShares
    /\ max_per_album \in ComposeAlbumCaps
    /\ playlist_songs = <<>>
    /\ all_available_songs = <<>>
    /\ result = <<>>
    /\ log_file = <<>>
    /\ loaded_log = <<>>
    /\ daily_log = <<>>
    /\ available_genre_groups = {}
    /\ max_log_entries = 0
    /\ min_songs_required = 0
    /\ i = 0
    /\ attempt = 0
    /\ selected_group = NoGroup
    /\ total_songs = 0
    /\ playlist_songs_bound = FALSE
    /\ exhausted = {}
    /\ outcome = <<>>
    /\ written = {}
    /\ search_raised = {}
    /\ NormIdle
    /\ PreferIdle
    /\ ReorderIdle
    /\ FormIdle
    /\ ComposeIdle
    /\ QualityIdle
    /\ CategorizeIdle
    /\ SearchIdle

\* the settings of the request and what no stage touches
ComposeFrame ==
    UNCHANGED <<normVars, reorderVars, batchVars, formVars, max_percentage, target_size,
                max_per_album, liked_artists, target_count, max_liked_percentage,
                min_variety_percentage, qualityVars,
                categorizeVars, searchVars>>

\* PPG-Daily, PPG-Genres: the results of two searches are appended to songs
\* as they come; the request is skipped when the pool is below
\* MIN_SONGS_REQUIRED
Fetch ==
    /\ pc = "Fetching"
    /\ script # "LikedArtists"
    /\ \E first \in Facets, second \in Facets, required \in RequiredShares :
          /\ Len(first) + Len(second) <= MaxListLen
          /\ songs' = first \o second
          /\ pc' = IF 10 * Len(songs') >= required * target_size
                   THEN "Selecting" ELSE "Skipped"
    /\ all_available_songs' = songs'
    /\ UNCHANGED <<playlist_songs, result, balance_cap>>
    /\ ComposeFrame

\* the size asked for without the limit of SONGS_PER_PLAYLIST
SelectCountWhole(pool) == Len(pool)

\* min(len(songs), SONGS_PER_PLAYLIST)
SelectCount(pool) == Min(Len(pool), target_size)

\* PPG-Daily, PPG-Genres: prefer_liked_artists where there are liked artists,
\* random.sample otherwise
Select ==
    /\ pc = "Selecting"
    /\ \E liked \in ComposeLiked, shares \in LikedShares :
          playlist_songs' \in
              IF liked # {}
              THEN prefer_liked_artists(songs, liked, SelectCount(songs),
                                        shares[1], shares[2])
              ELSE Sample(songs, SelectCount(songs))
    /\ pc' = "Balancing"
    /\ UNCHANGED <<songs, all_available_songs, result, balance_cap>>
    /\ ComposeFrame

\* PPG-LikedArtists, "similar_tracks": the base song, then similar tracks
SongBased(base_tracks, similar_tracks) ==
    LET remaining_slots == target_size - Len(base_tracks)
        available_similar ==
            SelectSeq(similar_tracks, LAMBDA t : ~In(t, base_tracks))
    IN IF similar_tracks # <<>> /\ remaining_slots > 0 /\ available_similar # <<>>
       THEN {base_tracks \o selected_similar :
                selected_similar \in
                    Sample(available_similar, Min(remaining_slots, Len(available_similar)))}
       ELSE {base_tracks}

\* PPG-LikedArtists, "similar_artists", once selected_artist_tracks is drawn
ArtistBasedRest(main_tracks, similar_tracks, selected_artist_tracks) ==
    LET remaining_slots == target_size - Len(selected_artist_tracks)
        available_similar ==
            SelectSeq(similar_tracks, LAMBDA t : ~In(t, selected_artist_tracks))
        max_total_artist == ShareOf(target_size, max_percentage)
        additional_needed ==
            Min(remaining_slots,
                Min(max_total_artist - Len(selected_artist_tracks),
                    Len(main_tracks) - Len(selected_artist_tracks)))
        available_artist ==
            SelectSeq(main_tracks, LAMBDA t : ~In(t, selected_artist_tracks))
    IN IF available_similar # <<>> /\ remaining_slots > 0
       THEN {selected_artist_tracks \o selected_similar :
                selected_similar \in
                    Sample(available_similar, Min(remaining_slots, Len(available_similar)))}
       ELSE IF /\ similar_tracks = <<>> /\ remaining_slots > 0
               /\ Len(selected_artist_tracks) < max_total_artist
               /\ Len(main_tracks) > Len(selected_artist_tracks)
               /\ additional_needed > 0
               /\ available_artist # <<>>
            THEN {selected_artist_tracks \o additional :
                     additional \in
                         Sample(available_artist,
                                Min(additional_needed, Len(available_artist)))}
            ELSE {selected_artist_tracks}

\* PPG-LikedArtists, "similar_artists": 30 to 50 percent of the playlist from
\* the artist where there are similar tracks, up to MAX_ARTIST_PERCENTAGE of
\* it where there are none
ArtistBased(main_tracks, similar_tracks) ==
    LET artist_counts ==
            IF similar_tracks # <<>>
            THEN {Min(artist_count, Len(main_tracks)) :
                     artist_count \in ShareOf(target_size, 3)..ShareOf(target_size, 5)}
            ELSE {Min(ShareOf(target_size, max_percentage),
                      Min(Len(main_tracks), target_size))}
    IN UNION {ArtistBasedRest(main_tracks, similar_tracks, selected_artist_tracks) :
                 selected_artist_tracks \in
                     UNION {Sample(main_tracks, artist_count) :
                               artist_count \in artist_counts}}

\* PPG-LikedArtists: the tracks of the artist (or the liked song) and the
\* similar tracks are fetched and the playlist is drawn from them; the
\* request is skipped when the artist has no track or no liked song is found
LikedSelect ==
    /\ pc = "Fetching"
    /\ script = "LikedArtists"
    /\ \E main_tracks \in Facets, similar_tracks \in Facets :
          /\ Len(main_tracks) + Len(similar_tracks) <= MaxListLen
          /\ selected_method = "similar_tracks" => Len(main_tracks) <= 1
          /\ IF main_tracks = <<>>
             THEN /\ pc' = "Skipped"
                  /\ UNCHANGED <<songs, all_available_songs, playlist_songs>>
             ELSE /\ pc' = "Balancing"
                  /\ songs' = main_tracks \o similar_tracks
                  /\ all_available_songs' = songs'
                  /\ playlist_songs' \in
                         IF selected_method = "similar_tracks"
                         THEN SongBased(main_tracks, similar_tracks)
                         ELSE ArtistBased(main_tracks, similar_tracks)
    /\ UNCHANGED <<result, balance_cap>>
    /\ ComposeFrame

\* balance_artist_representation: PPG-LikedArtists hands SONGS_PER_PLAYLIST
\* in, the others take the share of len(playlist_songs)
Balance ==
    /\ pc = "Balancing"
    /\ LET total == IF script = "LikedArtists" THEN target_size ELSE Len(playlist_songs)
       IN /\ balance_cap' = ShareOf(total, max_percentage)
          /\ playlist_songs' \in balance_artist_representation(
                                     playlist_songs, all_available_songs,
                                     max_percentage, total)
    /\ pc' = IF script = "Daily" THEN "Writing" ELSE "FilterDuration"
    /\ UNCHANGED <<songs, all_available_songs, result>>
    /\ ComposeFrame

\* apply_quality_filters, 1
FilterDuration ==
    /\ pc = "FilterDuration"
    /\ \E MIN_SONG_DURATION_SECONDS \in MinDurations :
          playlist_songs' = IF MIN_SONG_DURATION_SECONDS > 0
                            THEN filter_by_minimum_duration(playlist_songs,
                                                            MIN_SONG_DURATION_SECONDS)
                            ELSE playlist_songs
    /\ pc' = "FilterAlbum"
    /\ UNCHANGED <<songs, all_available_songs, result, balance_cap>>
    /\ ComposeFrame

\* apply_quality_filters, 2
FilterAlbum ==
    /\ pc = "FilterAlbum"
    /\ playlist_songs' \in
           IF max_per_album > 0 /\ Len(playlist_songs) > max_per_album
           THEN limit_songs_per_album(playlist_songs, all_available_songs, max_per_album)
           ELSE {playlist_songs}
    /\ pc' = "FilterConsecutive"
    /\ UNCHANGED <<songs, all_available_songs, result, balance_cap>>
    /\ ComposeFrame

\* apply_quality_filters, 3
FilterConsecutive ==
    /\ pc = "FilterConsecutive"
    /\ \E PREVENT_CONSECUTIVE_ARTISTS \in BOOLEAN :
          playlist_songs' \in
              IF PREVENT_CONSECUTIVE_ARTISTS /\ Len(playlist_songs) > 1
              THEN prevent_consecutive_artists(playlist_songs)
              ELSE {playlist_songs}
    /\ pc' = "FilterMood"
    /\ UNCHANGED <<songs, all_available_songs, result, balance_cap>>
    /\ ComposeFrame

\* apply_quality_filters, 4
FilterMood ==
    /\ pc = "FilterMood"
    /\ \E MOOD_GROUPING_ENABLED \in BOOLEAN :
          playlist_songs' \in
              IF MOOD_GROUPING_ENABLED /\ Len(playlist_songs) > 1
              THEN group_by_mood(playlist_songs)
              ELSE {playlist_songs}
    /\ pc' = "Writing"
    /\ UNCHANGED <<songs, all_available_songs, result, balance_cap>>
    /\ ComposeFrame

\* the playlist is created, or its items are replaced
Write ==
    /\ pc = "Writing"
    /\ result' = playlist_songs
    /\ pc' = "Done"
    /\ UNCHANGED <<songs, all_available_songs, playlist_songs, balance_cap>>
    /\ ComposeFrame

ComposeNext ==
    \/ Fetch \/ Select \/ LikedSelect \/ Balance
    \/ FilterDuration \/ FilterAlbum \/ FilterConsecutive \/ FilterMood \/ Write

SpecCompose == ComposeInit /\ [][ComposeNext]_vars

\* C14: the list written by PPG-Daily or PPG-Genres holds each track id at
\* most once, also when two searches returned the same track.
C14_WrittenOnce ==
    (pc = "Done" /\ script \in {"Daily", "Genres"}) => DuplicateFree(result)

\* C15: the list a request writes is never longer than SONGS_PER_PLAYLIST,
\* whatever the selection, the balancer and the quality filters did.
C15_AtMostTarget ==
    pc = "Done" => Len(result) <= target_size

\* a request of PPG-Genres or PPG-LikedArtists whose pool was larger than
\* SONGS_PER_PLAYLIST wrote a full list, with the balancer's cap below the
\* length of the list and the album stage on
C15_Witness ==
    /\ pc = "Done"
    /\ script \in {"Genres", "LikedArtists"}
    /\ Len(songs) > target_size
    /\ Len(result) = target_size
    /\ balance_cap < target_size
    /\ max_per_album > 0

\* C17: the album stage leaves every artist that was within the balancer's
\* cap before it within that cap.
C17_AlbumKeepsQuota ==
    [][(pc = "FilterAlbum" /\ pc' = "FilterConsecutive") =>
          \A artist \in Range(analyze_artist_distribution(playlist_songs')) :
              CountArtist(playlist_songs, artist) <= balance_cap
                  => CountArtist(playlist_songs', artist) <= balance_cap]_vars

(***************************************************************************)
(* Tracks without an album name in limit_songs_per_album.                  *)
(***************************************************************************)
\* C22: every track of the input that has no album name is in the output of
\* limit_songs_per_album, also when an album is over the cap.
C22_NullAlbumKept ==
    pc = "limited" =>
        \A n \in 1..Len(playlist_songs) :
            get_album_name(playlist_songs[n]) = None => In(playlist_songs[n], result)

(***************************************************************************)
(* The quality filters called on their own: filter_by_minimum_duration,    *)
(* group_by_mood and apply_quality_filters, each on every list of up to    *)
(* MaxListLen tracks.                                                      *)
(***************************************************************************)
QualityFrame ==
    UNCHANGED <<normVars, listVars, preferVars, reorderVars, batchVars, formVars,
                composeVars, qualityVars,
                categorizeVars, searchVars>>

DurationInit ==
    /\ pc = "call"
    /\ playlist_songs \in SeqsUpTo(Tracks, MaxListLen)
    /\ min_duration_seconds \in MinDurations
    /\ prevent_consecutive = FALSE
    /\ mood_grouping = FALSE
    /\ all_available_songs = <<>>
    /\ max_percentage = 0
    /\ target_size = 0
    /\ max_per_album = 0
    /\ result = <<>>
    /\ NormIdle
    /\ PreferIdle
    /\ ReorderIdle
    /\ BatchIdle
    /\ FormIdle
    /\ ComposeIdle
    /\ CategorizeIdle
    /\ SearchIdle

FilterByMinimumDuration ==
    /\ pc = "call"
    /\ result' = filter_by_minimum_duration(playlist_songs, min_duration_seconds)
    /\ pc' = "filtered"
    /\ QualityFrame

DurationNext == FilterByMinimumDuration

SpecDuration == DurationInit /\ [][DurationNext]_vars

\* C21: with a minimum above 0 the output of filter_by_minimum_duration is the
\* input without the tracks whose known duration (a reported 0 included) is
\* below the minimum, in the order of the input; a track without a duration
\* stays.
C21_KeepsLongEnough ==
    (pc = "filtered" /\ min_duration_seconds > 0) =>
        result = SelectSeq(playlist_songs,
                           LAMBDA track :
                               \/ Catalog[track].duration = <<>>
                               \/ Catalog[track].duration[1] >= min_duration_seconds * 1000)


MoodInit ==
    /\ pc = "call"
    /\ playlist_songs \in SeqsUpTo(Tracks, MaxListLen)
    /\ all_available_songs = <<>>
    /\ max_percentage = 0
    /\ target_size = 0
    /\ max_per_album = 0
    /\ result = <<>>
    /\ NormIdle
    /\ PreferIdle
    /\ ReorderIdle
    /\ BatchIdle
    /\ FormIdle
    /\ ComposeIdle
    /\ QualityIdle
    /\ CategorizeIdle
    /\ SearchIdle

GroupByMood ==
    /\ pc = "call"
    /\ result' \in group_by_mood(playlist_songs)
    /\ pc' = "grouped"
    /\ QualityFrame

MoodNext == GroupByMood

SpecMood == MoodInit /\ [][MoodNext]_vars

\* the moods of the tracks of list
MoodsOf(list) == {get_track_mood(list[n]) : n \in 1..Len(list)} \ {None}

CountMood(list, mood) ==
    Cardinality({n \in 1..Len(list) : get_track_mood(list[n]) = mood})

\* C23: when a track of the input has a mood, the output of group_by_mood is a
\* permutation of the input, and for one mood of the input (the selected one)
\* its k tracks fill the first k positions: every track of another mood and
\* every track without a mood comes after them.
C23_SelectedMoodFirst ==
    (pc = "grouped" /\ MoodsOf(playlist_songs) # {}) =>
        /\ \A track \in Tracks :
              CountTrack(result, track) = CountTrack(playlist_songs, track)
        /\ \E selected_mood \in MoodsOf(playlist_songs) :
              \A n \in 1..Len(result) :
                  (get_track_mood(result[n]) = selected_mood)
                      <=> (n <= CountMood(playlist_songs, selected_mood))

\* a track without a mood stands between the selected mood and a track of
\* another mood
C23_Witness ==
    /\ pc = "grouped"
    /\ Cardinality(MoodsOf(playlist_songs)) > 1
    /\ \E n \in 2..(Len(result) - 1) :
          /\ get_track_mood(result[n]) = None
          /\ get_track_mood(result[n + 1]) # None
          /\ get_track_mood(result[n + 1]) # get_track_mood(result[1])


\* C24: within the retry loop of one request, when more than one theme is
\* eligible, an attempt that follows an attempt that came back short selects
\* a theme other than the one that just came back short.
C24_RetryPicksAnother ==
    [][(pc = "retry" /\ attempt > 0 /\ Cardinality(available_genre_groups) > 1)
          => selected_group' # selected_group]_vars

\* C28: within one run no theme is used for two playlists: the theme of a
\* request that ends Done is not among the themes the run has appended to
\* the log in memory for its earlier Done requests.  (A theme that the
\* request may pick is in the log in memory only if the run appended it:
\* the themes of the loaded log are filtered out, or the log was emptied.)
C28_ThemeUsedOnce ==
    [][(pc = "generate" /\ outcome'[i] = "Done")
          => selected_group \notin Range(daily_log)]_vars

C26_LogAfterDone ==
    [][(pc # "start" /\ daily_log' # daily_log)
          => (outcome[i] = "pending" /\ outcome'[i] = "Done")]_vars

\* one request of the run failed or was skipped, another was written, and
\* the log holds the loaded entries and the one theme of the written request
C26_Witness ==
    /\ \E r \in DOMAIN outcome : outcome[r] \in {"Skipped", "Failed"}
    /\ Cardinality({r \in DOMAIN outcome : outcome[r] = "Done"}) = 1
    /\ loaded_log # <<>>
    /\ daily_log = Append(loaded_log, selected_group)

(***************************************************************************)
(* apply_quality_filters on its own: the four stages in the order of the   *)
(* code, each behind its condition.  playlist_songs is the argument and    *)
(* result the list the stages hand on.                                     *)
(***************************************************************************)
QualityInit ==
    /\ pc = "duration"
    /\ playlist_songs \in SeqsUpTo(Tracks, MaxListLen)
    /\ all_available_songs \in Universes
    /\ min_duration_seconds \in MinDurations
    /\ max_per_album \in ComposeAlbumCaps
    /\ prevent_consecutive \in BOOLEAN
    /\ mood_grouping \in BOOLEAN
    /\ result = playlist_songs
    /\ max_percentage = 0
    /\ target_size = 0
    /\ NormIdle
    /\ PreferIdle
    /\ ReorderIdle
    /\ BatchIdle
    /\ FormIdle
    /\ ComposeIdle
    /\ CategorizeIdle
    /\ SearchIdle

\* "1. Filter by minimum duration"
QualityDuration ==
    /\ pc = "duration"
    /\ result' = IF min_duration_seconds > 0
                 THEN filter_by_minimum_duration(result, min_duration_seconds)
                 ELSE result
    /\ pc' = "album"
    /\ QualityFrame

\* "2. Limit songs per album"
QualityAlbum ==
    /\ pc = "album"
    /\ result' \in IF max_per_album > 0 /\ Len(result) > max_per_album
                   THEN limit_songs_per_album(result, all_available_songs, max_per_album)
                   ELSE {result}
    /\ pc' = "consecutive"
    /\ QualityFrame

\* "3. Prevent consecutive artists"
QualityConsecutive ==
    /\ pc = "consecutive"
    /\ result' \in IF prevent_consecutive /\ Len(result) > 1
                   THEN prevent_consecutive_artists(result)
                   ELSE {result}
    /\ pc' = "mood"
    /\ QualityFrame

\* "4. Group by mood if enabled", and the return
QualityMood ==
    /\ pc = "mood"
    /\ result' \in IF mood_grouping /\ Len(result) > 1
                   THEN group_by_mood(result)
                   ELSE {result}
    /\ pc' = "returned"
    /\ QualityFrame

QualityNext == QualityDuration \/ QualityAlbum \/ QualityConsecutive \/ QualityMood

SpecQuality == QualityInit /\ [][QualityNext]_vars

\* C27: with a minimum duration above 0, the list apply_quality_filters
\* returns holds no track with a known duration below the minimum, the
\* tracks the album cap took from the universe included.  A duration is
\* taken as known here when get_track_duration_seconds reads it as known (a
\* duration of 0 is left aside).
C27_NoShortTrack ==
    (pc = "returned" /\ min_duration_seconds > 0) =>
        \A n \in 1..Len(result) :
            HasDuration(result[n])
                => DurationMs(result[n]) >= min_duration_seconds * 1000

(***************************************************************************)
(* The categorization of prefer_liked_artists: the pool is cut into        *)
(* batches, one future per batch runs categorize_song_batch on a worker    *)
(* thread, and the calling thread takes the futures as they complete and   *)
(* extends liked_songs and other_songs with their results.  A future is    *)
(* running, done, raised, and after the calling thread took it collected   *)
(* (its result was added) or dropped (its error was logged).  The pools    *)
(* hold at most three batches, fewer than the four workers there are at    *)
(* least, so that every batch runs from the start.                         *)
(***************************************************************************)
MinBatchSize == 50
MaxPoolLen == 101

\* pools of 0, 1, 2 and 3 batches: the tracks of the library in rotation
CategorizePools ==
    {[n \in 1..len |-> ((n + shift) % Len(Library)) + 1] :
        len \in {0, 1, MinBatchSize, MinBatchSize + 1, MaxPoolLen},
        shift \in 0..(Len(Library) - 1)}

\* batch_size = max(50, len(songs) // 20)
BatchSize(pool) ==
    IF Len(pool) \div 20 > MinBatchSize THEN Len(pool) \div 20 ELSE MinBatchSize

\* len(song_batches)
BatchCount(pool) == (Len(pool) + BatchSize(pool) - 1) \div BatchSize(pool)

\* batches that share a track with the batch that follows
SongBatchOverlapping(pool, b) ==
    SubSeq(pool, (b - 1) * BatchSize(pool) + 1, Min(b * BatchSize(pool) + 1, Len(pool)))

\* song_batches[b - 1]: songs[i:i + batch_size] with i = (b - 1) * batch_size
SongBatch(pool, b) ==
    SubSeq(pool, (b - 1) * BatchSize(pool) + 1, Min(b * BatchSize(pool), Len(pool)))

categorize_song_batch(song_batch, liked) ==
    <<LikedSongs(song_batch, liked), OtherSongs(song_batch, liked)>>

CategorizeFrame ==
    UNCHANGED <<normVars, listVars, result, preferVars, reorderVars, batchVars,
                formVars, composeVars, qualityVars, searchVars>>

CategorizeInit ==
    /\ pc = "call"
    /\ songs \in CategorizePools
    /\ liked_artists \in LikedSets \ {{}}
    /\ target_count = 0
    /\ max_liked_percentage = 0
    /\ min_variety_percentage = 0
    /\ result = <<>>
    /\ futures = <<>>
    /\ liked_collected = <<>>
    /\ other_collected = <<>>
    /\ ListIdle
    /\ NormIdle
    /\ ReorderIdle
    /\ BatchIdle
    /\ FormIdle
    /\ ComposeIdle
    /\ QualityIdle
    /\ SearchIdle

\* executor.submit for every batch
Submit ==
    /\ pc = "call"
    /\ futures' = [b \in 1..BatchCount(songs) |-> "running"]
    /\ pc' = "collecting"
    /\ UNCHANGED <<liked_collected, other_collected>>
    /\ CategorizeFrame

\* a worker thread ends its batch: categorize_song_batch returns or raises
Worker ==
    /\ pc = "collecting"
    /\ \E b \in DOMAIN futures :
          /\ futures[b] = "running"
          /\ \E ending \in {"done", "raised"} :
                futures' = [futures EXCEPT ![b] = ending]
    /\ UNCHANGED <<pc, liked_collected, other_collected>>
    /\ CategorizeFrame

\* one pass of "for future in as_completed(future_to_batch)"
Collect ==
    /\ pc = "collecting"
    /\ \E b \in DOMAIN futures :
          \/ /\ futures[b] = "done"
             /\ futures' = [futures EXCEPT ![b] = "collected"]
             /\ liked_collected' =
                   liked_collected
                       \o categorize_song_batch(SongBatch(songs, b), liked_artists)[1]
             /\ other_collected' =
                   other_collected
                       \o categorize_song_batch(SongBatch(songs, b), liked_artists)[2]
          \/ /\ futures[b] = "raised"
             /\ futures' = [futures EXCEPT ![b] = "dropped"]
             /\ UNCHANGED <<liked_collected, other_collected>>
    /\ UNCHANGED pc
    /\ CategorizeFrame

\* as_completed is exhausted and the executor is left
Categorized ==
    /\ pc = "collecting"
    /\ \A b \in DOMAIN futures : futures[b] \in {"collected", "dropped"}
    /\ pc' = "categorized"
    /\ UNCHANGED <<futures, liked_collected, other_collected>>
    /\ CategorizeFrame

CategorizeNext == Submit \/ Worker \/ Collect \/ Categorized

SpecCategorize == CategorizeInit /\ [][CategorizeNext]_vars

\* the two lists hold the tracks of a sequential pass over the pool, each as
\* many times
SameAsSequential ==
    \A track \in Tracks :
        /\ CountTrack(liked_collected, track)
              = CountTrack(LikedSongs(songs, liked_artists), track)
        /\ CountTrack(other_collected, track)
              = CountTrack(OtherSongs(songs, liked_artists), track)

SearchFrame ==
    UNCHANGED <<normVars, listVars, preferVars, batchVars, formVars, composeVars,
                qualityVars, categorizeVars>>

\* a draw that fails and is not counted
FailedDrawUncounted(n) == n

\* "attempts += 1"
FailedDraw(n) == n + 1

\* max_attempts = len(artist_queue) * 2
MaxSearchAttempts(groups) == Cardinality(DOMAIN groups) * 2

\* "Add any remaining tracks at the end" (nothing, when every group is
\* empty) and reordered[:len(playlist_songs)]
Returned(groups, emitted, list) ==
    LET whole == IF \A key \in DOMAIN groups : groups[key] = <<>>
                 THEN emitted
                 ELSE emitted
                          \o Leftover(groups,
                                      KeysInOrder([n \in 1..Len(list) |->
                                                      GroupKey(list[n])]))
    IN SubSeq(whole, 1, Min(Len(whole), Len(list)))

\* the top of "while len(reordered) < len(playlist_songs)"
SearchBegin ==
    /\ pc = "loop"
    /\ Len(reordered) < Len(playlist_songs)
    /\ picked_artist' = None
    /\ attempts' = 0
    /\ pc' = "search"
    /\ UNCHANGED <<result, reorderVars>>
    /\ SearchFrame

\* one pass of "while attempts < max_attempts": a candidate is drawn
SearchDraw ==
    /\ pc = "search"
    /\ attempts < MaxSearchAttempts(artist_tracks)
    /\ \E candidate \in DOMAIN artist_tracks :
          IF candidate \in Acceptable(artist_tracks, reordered)
          THEN /\ picked_artist' = candidate
               /\ pc' = "emit"
               /\ UNCHANGED attempts
          ELSE /\ attempts' = FailedDraw(attempts)
               /\ UNCHANGED <<pc, picked_artist>>
    /\ UNCHANGED <<result, reorderVars>>
    /\ SearchFrame

\* the inner loop ran out: "just take any available artist"
SearchFallback ==
    /\ pc = "search"
    /\ attempts >= MaxSearchAttempts(artist_tracks)
    /\ LET available == {a \in DOMAIN artist_tracks : artist_tracks[a] # <<>>}
       IN IF available # {} THEN picked_artist' \in available
          ELSE UNCHANGED picked_artist
    /\ pc' = "emit"
    /\ UNCHANGED <<attempts, result, reorderVars>>
    /\ SearchFrame

\* the end of the pass: a track of next_artist is emitted, or the loop is left
SearchEmit ==
    /\ pc = "emit"
    /\ IF picked_artist # None /\ artist_tracks[picked_artist] # <<>>
       THEN /\ reordered' =
                  Append(reordered,
                         artist_tracks[picked_artist][Len(artist_tracks[picked_artist])])
            /\ artist_tracks' = ReorderTake(artist_tracks, picked_artist)
            /\ pc' = "loop"
       ELSE /\ pc' = "break"
            /\ UNCHANGED reorderVars
    /\ UNCHANGED <<attempts, picked_artist, result>>
    /\ SearchFrame

\* after the loop: what is left in the groups is appended and the list cut
\* to the input's length
SearchReturn ==
    /\ \/ pc = "loop" /\ Len(reordered) >= Len(playlist_songs)
       \/ pc = "break"
    /\ result' = Returned(artist_tracks, reordered, playlist_songs)
    /\ pc' = "returned"
    /\ UNCHANGED <<attempts, picked_artist, reorderVars>>
    /\ SearchFrame

SearchNext ==
    \/ ReorderUnchanged
    \/ ReorderShuffle
    \/ SearchBegin
    \/ SearchDraw
    \/ SearchFallback
    \/ SearchEmit
    \/ SearchReturn

SpecSearch == ReorderInit /\ [][SearchNext]_vars /\ WF_vars(SearchNext)

\* C30: prevent_consecutive_artists returns for every input: a pass of the
\* outer loop ends with one more track emitted or with the loop left, and
\* the candidate search of a pass makes at most 2 * (number of artist
\* groups) failed draws, also when every track left is by the artist just
\* emitted.
C30_Terminates ==
    /\ <>(pc = "returned")
    /\ [](attempts <= 2 * Cardinality(DOMAIN artist_tracks))
    /\ [][pc = "emit" => \/ pc' = "loop" /\ Len(reordered') = Len(reordered) + 1
                         \/ pc' = "break"]_vars

\* the search of a pass has run out: every track left is by the artist of
\* the track just emitted, and every draw failed
C30_Witness ==
    /\ pc = "search"
    /\ reordered # <<>>
    /\ attempts = 2 * Cardinality(DOMAIN artist_tracks)
    /\ Cardinality(DOMAIN artist_tracks) > 1
    /\ \A a \in DOMAIN artist_tracks :
          artist_tracks[a] # <<>> => a = get_artist_name(reordered[Len(reordered)])
    /\ \E a \in DOMAIN artist_tracks : artist_tracks[a] # <<>>
=============================================================================
